---- MODULE Spec2Model ----
(***************************************************************************)
(* Model of launcher_parser.py: the streaming interpreter of a multi-phase *)
(* scan log (NetworkScanParser and main).                                  *)
(*                                                                         *)
(* Text.  A line is the sequence of its whitespace-separated tokens (the   *)
(* separators \s+ of the patterns); a token is a sequence of characters.   *)
(* A character is a one-character string, except that a run of letters     *)
(* whose characters are never inspected one by one is written as one       *)
(* string ("tcp", "open", "Acme").  Digits, the hexadecimal letters of a   *)
(* MAC address and punctuation are always single characters, so lengths    *)
(* and digit runs are the real ones where the patterns count them.         *)
(***************************************************************************)
EXTENDS Integers, Sequences, FiniteSets, TLC

\* Number of input lines main() reads before the stream ends or is cancelled.
MaxLines == 4

-----------------------------------------------------------------------------
(* Characters and character classes of the patterns.                       *)

Digit == {"0", "1", "2", "3", "4", "5", "6", "7", "8", "9"}

\* [A-Fa-f0-9:]
HexColon == Digit \cup {"A", "B", "C", "D", "E", "F",
                        "a", "b", "c", "d", "e", "f", ":"}

\* Characters of the modelled alphabet that are not in \w.
NonWord == {".", ":", "-", "=", "!", "/", " ", "EMDASH"}

\* \w
IsWordChar(c) == c \notin NonWord

\* [\w\-]
IsWordDashChar(c) == IsWordChar(c) \/ c = "-"

\* int() of one decimal digit.
DigitVal(c) ==
    CASE c = "0" -> 0 [] c = "1" -> 1 [] c = "2" -> 2 [] c = "3" -> 3
      [] c = "4" -> 4 [] c = "5" -> 5 [] c = "6" -> 6 [] c = "7" -> 7
      [] c = "8" -> 8 [] c = "9" -> 9

\* int(text) for a text of decimal digits.
RECURSIVE ToInt(_)
ToInt(t) ==
    IF t = <<>> THEN 0
    ELSE 10 * ToInt(SubSeq(t, 1, Len(t) - 1)) + DigitVal(t[Len(t)])

\* Length of the run of digits of t that starts at position i.
RECURSIVE DigitRun(_, _)
DigitRun(t, i) ==
    IF i <= Len(t) /\ t[i] \in Digit THEN 1 + DigitRun(t, i + 1) ELSE 0

\* Length of the run of [\w\-] characters of t that starts at position i.
RECURSIVE WordDashRun(_, _)
WordDashRun(t, i) ==
    IF i <= Len(t) /\ IsWordDashChar(t[i]) THEN 1 + WordDashRun(t, i + 1) ELSE 0

\* [0-9]{1,3}\. at position i of t: the position after the dot, 0 if no match.
OctetDot(t, i) ==
    LET r == DigitRun(t, i)
    IN  IF i > 0 /\ r \in 1..3 /\ i + r <= Len(t) /\ t[i + r] = "."
        THEN i + r + 1 ELSE 0

\* [0-9]{1,3}\.[0-9]{1,3}\.[0-9]{1,3}\.[0-9]{1,3} at the start of t, greedy:
\* the number of characters matched, 0 if no match.
IPPrefix(t) ==
    LET i4 == OctetDot(t, OctetDot(t, OctetDot(t, 1)))
        r4 == DigitRun(t, i4)
    IN  IF i4 > 0 /\ r4 >= 1 THEN i4 - 1 + (IF r4 > 3 THEN 3 ELSE r4) ELSE 0

\* The IP pattern followed by \s+ : the token is a dotted quad and nothing else.
IsIPToken(t) == t # <<>> /\ IPPrefix(t) = Len(t)

\* (\d+) followed by \s+
IsDigitsToken(t) == t # <<>> /\ DigitRun(t, 1) = Len(t)

\* (\w+) followed by \s+
IsWordToken(t) == t # <<>> /\ \A i \in 1..Len(t) : IsWordChar(t[i])

\* [\w\-]+ followed by \s+ or $
IsWordDashToken(t) == t # <<>> /\ WordDashRun(t, 1) = Len(t)

\* ([A-Fa-f0-9:]{17}|None) followed by \s+
IsMacToken(t) ==
    \/ Len(t) = 17 /\ \A i \in 1..17 : t[i] \in HexColon
    \/ t = <<"None">>

\* The text of tokens i.. of a line, joined by single blanks: what (.*) captures.
RECURSIVE JoinFrom(_, _)
JoinFrom(toks, i) ==
    IF i > Len(toks) THEN <<>>
    ELSE IF i = Len(toks) THEN toks[i]
    ELSE toks[i] \o <<" ">> \o JoinFrom(toks, i + 1)

\* needle in line, for a needle that is a sequence of whole tokens.
Contains(toks, needle) ==
    \E i \in 1..Len(toks) :
        /\ i + Len(needle) - 1 <= Len(toks)
        /\ SubSeq(toks, i, i + Len(needle) - 1) = needle

\* The absent-marker (an em dash, written here EMDASH) put in place of a
\* missing MAC, vendor or fingerprint.
Absent == <<"EMDASH">>

-----------------------------------------------------------------------------
(* compile_patterns: the six patterns, on a line given as its tokens.       *)

\* host_pattern.match(line.strip()): <ip> <mac|None> <vendor text>.  The
\* line is stripped, so the \s+ after the MAC needs a further token.
HostMatch(toks) ==
    Len(toks) >= 3 /\ IsIPToken(toks[1]) /\ IsMacToken(toks[2])

\* port_pattern.match(line.strip()): exactly six tokens up to the $.
PortMatch(toks) ==
    /\ Len(toks) = 6
    /\ IsIPToken(toks[1]) /\ IsDigitsToken(toks[2])
    /\ IsWordToken(toks[3]) /\ IsWordToken(toks[4])
    /\ IsWordDashToken(toks[5]) /\ IsWordDashToken(toks[6])

\* service_pattern.match(line.strip()): five fields, then any text.
ServiceMatch(toks) ==
    /\ Len(toks) >= 5
    /\ IsIPToken(toks[1]) /\ IsDigitsToken(toks[2])
    /\ IsWordToken(toks[3]) /\ IsWordToken(toks[4])
    /\ WordDashRun(toks[5], 1) >= 1

\* Group 5 of service_pattern: the greedy [\w\-]+ at the start of token 5.
ServiceGroup(toks) == SubSeq(toks[5], 1, WordDashRun(toks[5], 1))

\* Faulty variant of FingerprintGroup: the lazy (.*?) without the final $
\* captures nothing.
FingerprintGroup_Lazy(toks) == <<>>

\* Group 6 of service_pattern: what is left of the line after group 5 and \s*.
FingerprintGroup(toks) ==
    LET r    == WordDashRun(toks[5], 1)
        rest == SubSeq(toks[5], r + 1, Len(toks[5]))
        tail == SubSeq(toks, 6, Len(toks))
    IN  IF rest = <<>> THEN JoinFrom(tail, 1)
        ELSE JoinFrom(<<rest>> \o tail, 1)

\* host_scan_pattern.search(line): the position of the token after the
\* leftmost "Scanning " that starts with a dotted quad, 0 if there is none.
HostScanAt(toks) ==
    LET hits == {i \in 2..Len(toks) :
                    toks[i - 1] = <<"Scanning">> /\ IPPrefix(toks[i]) > 0}
    IN  IF hits = {} THEN 0 ELSE CHOOSE i \in hits : \A j \in hits : i <= j

\* host_match.group(1)
HostScanGroup(toks) ==
    LET t == toks[HostScanAt(toks)] IN SubSeq(t, 1, IPPrefix(t))

\* "Port <ip>:<port>" read from token t: a dotted quad, a colon, digits.
IsIPColonPort(t) ==
    LET n == IPPrefix(t)
    IN  n > 0 /\ n < Len(t) /\ t[n + 1] = ":" /\ DigitRun(t, n + 2) >= 1

\* service_port_pattern.search(line): position of the matching token, or 0.
ServicePortAt(toks) ==
    LET hits == {i \in 2..Len(toks) :
                    toks[i - 1] = <<"Port">> /\ IsIPColonPort(toks[i])}
    IN  IF hits = {} THEN 0 ELSE CHOOSE i \in hits : \A j \in hits : i <= j

\* service_match.groups()
ServicePortGroups(toks) ==
    LET t == toks[ServicePortAt(toks)]
        n == IPPrefix(t)
    IN  [ip |-> SubSeq(t, 1, n),
         port |-> SubSeq(t, n + 2, n + 1 + DigitRun(t, n + 2))]

\* service_count_pattern.search(line): position of the (\d+) token, or 0.
ServiceCountAt(toks) ==
    LET before == << <<"Performing">>, <<"service">>, <<"detection">>, <<"on">> >>
        hits == {i \in 5..(Len(toks) - 2) :
                    /\ SubSeq(toks, i - 4, i - 1) = before
                    /\ IsDigitsToken(toks[i])
                    /\ toks[i + 1] = <<"open">>
                    /\ Len(toks[i + 2]) >= 1
                    /\ toks[i + 2][1] \in {"port", "ports"}}
    IN  IF hits = {} THEN 0 ELSE CHOOSE i \in hits : \A j \in hits : i <= j

\* The four marker texts process_line looks for with "in".
HostDiscoveryMarker    == << <<"=", "=", "=">>, <<"HOST">>, <<"DISCOVERY">>, <<"=", "=", "=">> >>
PortScanningMarker     == << <<"=", "=", "=">>, <<"PORT">>, <<"SCANNING">>, <<"=", "=", "=">> >>
ServiceDetectionMarker == << <<"=", "=", "=">>, <<"SERVICE">>, <<"DETECTION">>, <<"=", "=", "=">> >>
ScanCompleteMarker     == << <<"Scan">>, <<"complete", "!">> >>

-----------------------------------------------------------------------------
(* The session (NetworkScanParser.__init__) and the standard output.        *)

VARIABLES
    hosts_data,              \* list of HostRecords, in arrival order
    ports_data,              \* list of PortRecords, in arrival order
    services_data,           \* list of ServiceRecords, in arrival order
    current_phase,           \* "STARTING", "HOST_DISCOVERY", ...
    current_host,            \* the announced IP, None before the first one
    current_host_has_ports,
    service_count,
    total_services,
    out,                     \* what has been printed, one entry per block
    pc,                      \* main(): "reading" in the loop, "done" after it
    ending,                  \* how the loop of main() was left
    exit_status,             \* status the process exits with
    lines_read,              \* number of lines the loop has consumed
    rows_seen,               \* history: the rows fed to the row parsers
    markers_seen             \* history: the marker lines fed, as ranks 1..4

vars == <<hosts_data, ports_data, services_data, current_phase, current_host,
          current_host_has_ports, service_count, total_services, out, pc,
          ending, exit_status, lines_read, rows_seen, markers_seen>>

\* None, for current_host.
None == <<>>

\* One block of output: what was printed (e), and the values formatted in it.
Ev(e, ip, port, txt, n) == [e |-> e, ip |-> ip, port |-> port, txt |-> txt, n |-> n]

\* print(...)
Emit(s, ev) == [s EXCEPT !.out = Append(@, ev)]

\* The fields of the parser object, as one record.
Self ==
    [hosts_data |-> hosts_data, ports_data |-> ports_data,
     services_data |-> services_data, current_phase |-> current_phase,
     current_host |-> current_host,
     current_host_has_ports |-> current_host_has_ports,
     service_count |-> service_count, total_services |-> total_services,
     out |-> out]

print_header(s) == Emit(s, Ev("header", <<>>, <<>>, <<>>, 0))

print_phase_header(s, phase) == Emit(s, Ev("phase_header", <<>>, <<>>, <<phase>>, 0))

-----------------------------------------------------------------------------
(* The row parsers.                                                         *)

\* Faulty variant of HostKnown: the existence check never finds the host.
HostKnown_Never(s, ip) == FALSE

\* any(host['IP'] == ip for host in self.hosts_data)
HostKnown(s, ip) == \E i \in 1..Len(s.hosts_data) : s.hosts_data[i].IP = ip

\* host_info of parse_host_discovery
HostInfo(toks) ==
    LET mac    == toks[2]
        vendor == JoinFrom(toks, 3)
    IN  [IP |-> toks[1],
         MAC |-> IF mac # <<"None">> THEN mac ELSE Absent,
         Vendor |-> IF vendor # <<>> /\ vendor # <<"None">> THEN vendor ELSE Absent]

\* Faulty variant of parse_host_discovery: a row for a known IP replaces the
\* record of that IP.
parse_host_discovery_Overwrites(s, toks) ==
    IF ~HostMatch(toks) THEN s
    ELSE IF HostKnown(s, toks[1])
    THEN [s EXCEPT !.hosts_data =
             [i \in 1..Len(@) |-> IF @[i].IP = toks[1] THEN HostInfo(toks) ELSE @[i]]]
    ELSE LET host_info == HostInfo(toks)
             vendor_text == IF host_info.Vendor # Absent THEN host_info.Vendor ELSE <<>>
         IN  Emit([s EXCEPT !.hosts_data = Append(@, host_info)],
                  Ev("host_discovered", toks[1], <<>>, vendor_text, 0))

parse_host_discovery(s, toks) ==
    IF ~HostMatch(toks) THEN s
    ELSE IF HostKnown(s, toks[1]) THEN s
    ELSE LET host_info == HostInfo(toks)
             vendor_text == IF host_info.Vendor # Absent THEN host_info.Vendor ELSE <<>>
         IN  Emit([s EXCEPT !.hosts_data = Append(@, host_info)],
                  Ev("host_discovered", toks[1], <<>>, vendor_text, 0))

\* Faulty variant of PortKnown: the existence check looks in services_data.
PortKnown_InServices(s, ip, port) ==
    \E i \in 1..Len(s.services_data) :
        s.services_data[i].IP = ip /\ s.services_data[i].Port = ToInt(port)

\* any(p['IP'] == ip and p['Port'] == int(port) for p in self.ports_data)
PortKnown(s, ip, port) ==
    \E i \in 1..Len(s.ports_data) :
        s.ports_data[i].IP = ip /\ s.ports_data[i].Port = ToInt(port)

\* Faulty variant of IsOpen: every state but "closed" is admitted.
IsOpen_NotClosed(state) == state # <<"closed">>

\* state == 'open'
IsOpen(state) == state = <<"open">>

\* port_info of parse_port_scanning
PortInfo(toks) ==
    [IP |-> toks[1], Port |-> ToInt(toks[2]), Protocol |-> toks[3],
     State |-> toks[4], Service |-> toks[6]]

\* Faulty variant of parse_port_scanning: the host is marked as having ports
\* before the line is matched.
parse_port_scanning_MarksHostEarly(s, toks) ==
    LET s0 == [s EXCEPT !.current_host_has_ports = TRUE]
    IN  IF ~PortMatch(toks) THEN s0
        ELSE IF ~IsOpen(toks[4]) THEN s0
        ELSE IF PortKnown(s0, toks[1], toks[2]) THEN s0
        ELSE Emit([s0 EXCEPT !.ports_data = Append(@, PortInfo(toks))],
                  Ev("port_open", toks[1], toks[2], toks[6], 0))

\* if match: ... if state == 'open': ... if not any(...): append and print
parse_port_scanning(s, toks) ==
    IF ~PortMatch(toks) THEN s
    ELSE IF ~IsOpen(toks[4]) THEN s
    ELSE IF PortKnown(s, toks[1], toks[2]) THEN s
    ELSE Emit([s EXCEPT !.ports_data = Append(@, PortInfo(toks)),
                        !.current_host_has_ports = TRUE],
              Ev("port_open", toks[1], toks[2], toks[6], 0))

\* Faulty variant of ServiceKnown: the existence check never finds the service.
ServiceKnown_Never(s, ip, port) == FALSE

\* any(s['IP'] == ip and s['Port'] == int(port) for s in self.services_data)
ServiceKnown(s, ip, port) ==
    \E i \in 1..Len(s.services_data) :
        s.services_data[i].IP = ip /\ s.services_data[i].Port = ToInt(port)

\* service_info of parse_service_detection
ServiceInfo(toks) ==
    LET fingerprint == FingerprintGroup(toks)
    IN  [IP |-> toks[1], Port |-> ToInt(toks[2]), Protocol |-> toks[3],
         State |-> toks[4], Service |-> ServiceGroup(toks),
         Fingerprint |-> IF fingerprint # <<>> THEN fingerprint ELSE Absent]

parse_service_detection(s, toks) ==
    IF ~ServiceMatch(toks) THEN s
    ELSE IF ServiceKnown(s, toks[1], toks[2]) THEN s
    ELSE LET service_info == ServiceInfo(toks)
             fp_text == IF service_info.Fingerprint # Absent
                        THEN service_info.Fingerprint ELSE <<>>
         IN  Emit([s EXCEPT !.services_data = Append(@, service_info),
                            !.service_count = @ + 1],
                  Ev("service", toks[1], toks[2], fp_text, 0))

-----------------------------------------------------------------------------
(* The summaries.  Each is one block of output; n is the total it prints    *)
(* on its first line.                                                       *)

print_host_discovery_summary(s) ==
    Emit(s, Ev("host_discovery_summary", <<>>, <<>>, <<>>, Len(s.hosts_data)))

print_port_scanning_summary(s) ==
    Emit(s, Ev("port_scanning_summary", <<>>, <<>>, <<>>, Len(s.ports_data)))

print_service_detection_summary(s) ==
    Emit(s, Ev("service_detection_summary", <<>>, <<>>, <<>>, Len(s.services_data)))

print_network_tree(s) ==
    Emit(s, Ev("network_tree", <<>>, <<>>, <<>>, Len(s.hosts_data)))

\* print_final_summary ends by printing the network tree.
print_final_summary(s) ==
    print_network_tree(
        Emit(s, Ev("final_summary", <<>>, <<>>, <<>>, Len(s.hosts_data))))

-----------------------------------------------------------------------------
(* process_line                                                             *)

handle_host_transition(s) ==
    IF /\ s.current_host # None
       /\ ~s.current_host_has_ports
       /\ s.current_phase = "PORT_SCANNING"
    THEN Emit(s, Ev("no_open_ports", <<>>, <<>>, <<>>, 0))
    ELSE s

\* Faulty variant of ParseRow: the line is given to the three parsers in turn.
ParseRow_EveryParser(s, toks) ==
    parse_service_detection(
        parse_port_scanning(parse_host_discovery(s, toks), toks), toks)

\* The try block at the end of process_line: the row parser of the phase.
ParseRow(s, toks) ==
    IF s.current_phase = "HOST_DISCOVERY" THEN parse_host_discovery(s, toks)
    ELSE IF s.current_phase = "PORT_SCANNING" THEN parse_port_scanning(s, toks)
    ELSE IF s.current_phase = "SERVICE_DETECTION" THEN parse_service_detection(s, toks)
    ELSE s

\* Faulty variant of EnterServiceDetection: the running counter is not reset.
EnterServiceDetection_CounterKept(s) ==
    LET s1 == handle_host_transition(s)
        s2 == [s1 EXCEPT !.current_phase = "SERVICE_DETECTION",
                         !.total_services = Len(s1.ports_data)]
    IN  print_phase_header(print_port_scanning_summary(s2), "SERVICE DETECTION")

\* Faulty variant of EnterServiceDetection: the header of the new phase is
\* printed before the summary of the old one.
EnterServiceDetection_HeaderFirst(s) ==
    LET s1 == handle_host_transition(s)
        s2 == [s1 EXCEPT !.current_phase = "SERVICE_DETECTION",
                         !.total_services = Len(s1.ports_data),
                         !.service_count = 0]
    IN  print_port_scanning_summary(print_phase_header(s2, "SERVICE DETECTION"))

\* Faulty variant of EnterServiceDetection: the phase of another branch is set.
EnterServiceDetection_WrongPhase(s) ==
    LET s1 == handle_host_transition(s)
        s2 == [s1 EXCEPT !.current_phase = "HOST_DISCOVERY",
                         !.total_services = Len(s1.ports_data),
                         !.service_count = 0]
    IN  print_phase_header(print_port_scanning_summary(s2), "SERVICE DETECTION")

\* What "=== SERVICE DETECTION ===" does.
EnterServiceDetection(s) ==
    LET s1 == handle_host_transition(s)
        s2 == [s1 EXCEPT !.current_phase = "SERVICE_DETECTION",
                         !.total_services = Len(s1.ports_data),
                         !.service_count = 0]
    IN  print_phase_header(print_port_scanning_summary(s2), "SERVICE DETECTION")

\* Faulty variant of AnnounceHost: the transition check runs after the
\* current host is replaced.
AnnounceHost_CheckAfter(s, toks) ==
    LET s1 == [s EXCEPT !.current_host = HostScanGroup(toks),
                        !.current_host_has_ports = FALSE]
        s2 == handle_host_transition(s1)
    IN  Emit(s2, Ev("scanning", s2.current_host, <<>>, <<>>, 0))

\* Faulty variant of AnnounceHost: the return is missing and the line goes on
\* to the row parser.
AnnounceHost_NoReturn(s, toks) ==
    LET s1 == handle_host_transition(s)
        s2 == [s1 EXCEPT !.current_host = HostScanGroup(toks),
                         !.current_host_has_ports = FALSE]
    IN  ParseRow(Emit(s2, Ev("scanning", s2.current_host, <<>>, <<>>, 0)), toks)

\* What a "Scanning <ip>" line does.
AnnounceHost(s, toks) ==
    LET s1 == handle_host_transition(s)
        s2 == [s1 EXCEPT !.current_host = HostScanGroup(toks),
                         !.current_host_has_ports = FALSE]
    IN  Emit(s2, Ev("scanning", s2.current_host, <<>>, <<>>, 0))

\* Faulty variant of process_line: the service-count line also resets the
\* running counter, as the SERVICE DETECTION marker does.
process_line_CountResetsCounter(s, toks) ==
    IF toks = <<>> THEN s
    ELSE IF Contains(toks, HostDiscoveryMarker) THEN
        print_phase_header([s EXCEPT !.current_phase = "HOST_DISCOVERY"],
                           "HOST DISCOVERY")
    ELSE IF Contains(toks, PortScanningMarker) THEN
        print_phase_header(
            print_host_discovery_summary([s EXCEPT !.current_phase = "PORT_SCANNING"]),
            "PORT SCANNING")
    ELSE IF Contains(toks, ServiceDetectionMarker) THEN
        EnterServiceDetection(s)
    ELSE IF Contains(toks, ScanCompleteMarker) THEN
        print_final_summary(
            print_service_detection_summary([s EXCEPT !.current_phase = "COMPLETE"]))
    ELSE IF HostScanAt(toks) # 0 THEN
        AnnounceHost(s, toks)
    ELSE IF ServicePortAt(toks) # 0 THEN
        LET g == ServicePortGroups(toks)
        IN  Emit(s, Ev("analyzing", g.ip, g.port, <<>>, 0))
    ELSE IF ServiceCountAt(toks) # 0 THEN
        [s EXCEPT !.total_services = ToInt(toks[ServiceCountAt(toks)]),
                  !.service_count = 0]
    ELSE ParseRow(s, toks)

\* Faulty variant of process_line: a marker is taken only in the phase that
\* comes before its own.
process_line_MarkersValidated(s, toks) ==
    IF toks = <<>> THEN s
    ELSE IF Contains(toks, HostDiscoveryMarker) THEN
        IF s.current_phase # "STARTING" THEN s
        ELSE print_phase_header([s EXCEPT !.current_phase = "HOST_DISCOVERY"],
                                "HOST DISCOVERY")
    ELSE IF Contains(toks, PortScanningMarker) THEN
        IF s.current_phase # "HOST_DISCOVERY" THEN s
        ELSE print_phase_header(
                print_host_discovery_summary([s EXCEPT !.current_phase = "PORT_SCANNING"]),
                "PORT SCANNING")
    ELSE IF Contains(toks, ServiceDetectionMarker) THEN
        IF s.current_phase # "PORT_SCANNING" THEN s
        ELSE EnterServiceDetection(s)
    ELSE IF Contains(toks, ScanCompleteMarker) THEN
        IF s.current_phase # "SERVICE_DETECTION" THEN s
        ELSE print_final_summary(
                print_service_detection_summary([s EXCEPT !.current_phase = "COMPLETE"]))
    ELSE IF HostScanAt(toks) # 0 THEN
        AnnounceHost(s, toks)
    ELSE IF ServicePortAt(toks) # 0 THEN
        LET g == ServicePortGroups(toks)
        IN  Emit(s, Ev("analyzing", g.ip, g.port, <<>>, 0))
    ELSE IF ServiceCountAt(toks) # 0 THEN
        [s EXCEPT !.total_services = ToInt(toks[ServiceCountAt(toks)])]
    ELSE ParseRow(s, toks)

process_line(s, toks) ==
    IF toks = <<>> THEN s
    ELSE IF Contains(toks, HostDiscoveryMarker) THEN
        print_phase_header([s EXCEPT !.current_phase = "HOST_DISCOVERY"],
                           "HOST DISCOVERY")
    ELSE IF Contains(toks, PortScanningMarker) THEN
        print_phase_header(
            print_host_discovery_summary([s EXCEPT !.current_phase = "PORT_SCANNING"]),
            "PORT SCANNING")
    ELSE IF Contains(toks, ServiceDetectionMarker) THEN
        EnterServiceDetection(s)
    ELSE IF Contains(toks, ScanCompleteMarker) THEN
        print_final_summary(
            print_service_detection_summary([s EXCEPT !.current_phase = "COMPLETE"]))
    ELSE IF HostScanAt(toks) # 0 THEN
        AnnounceHost(s, toks)
    ELSE IF ServicePortAt(toks) # 0 THEN
        LET g == ServicePortGroups(toks)
        IN  Emit(s, Ev("analyzing", g.ip, g.port, <<>>, 0))
    ELSE IF ServiceCountAt(toks) # 0 THEN
        [s EXCEPT !.total_services = ToInt(toks[ServiceCountAt(toks)])]
    ELSE ParseRow(s, toks)

-----------------------------------------------------------------------------
(* The input: the lines the launcher may write.                             *)

IP_A == <<"1", "0", ".", "0", ".", "0", ".", "2">>
IP_B == <<"1", "0", ".", "0", ".", "0", ".", "1", "0">>
MAC_A == <<"A", "A", ":", "B", "B", ":", "C", "C", ":",
           "D", "D", ":", "E", "E", ":", "F", "F">>

BlankLine == <<>>
NoiseLine == << <<"Starting">>, <<"scan">> >>

HostRowA     == <<IP_A, MAC_A, <<"Acme">>, <<"Corp">> >>
HostRowADup  == <<IP_A, <<"None">>, <<"None">> >>
HostRowB     == <<IP_B, <<"None">>, <<"Initech">> >>

PortRowA22      == <<IP_A, <<"2", "2">>, <<"tcp">>, <<"open">>, <<"syn", "-", "ack">>, <<"ssh">> >>
PortRowA22Dup   == <<IP_A, <<"0", "2", "2">>, <<"tcp">>, <<"open">>, <<"syn", "-", "ack">>, <<"http">> >>
PortRowA80Closed == <<IP_A, <<"8", "0">>, <<"tcp">>, <<"closed">>, <<"reset">>, <<"http">> >>
PortRowB23Filtered == <<IP_B, <<"2", "3">>, <<"tcp">>, <<"filtered">>, <<"no", "-", "response">>, <<"telnet">> >>
PortRowB443     == <<IP_B, <<"4", "4", "3">>, <<"tcp">>, <<"open">>, <<"syn", "-", "ack">>, <<"https">> >>
PortRowBadPort  == <<IP_A, <<"abc">>, <<"tcp">>, <<"open">>, <<"syn", "-", "ack">>, <<"ssh">> >>

ServiceRowA22    == <<IP_A, <<"2", "2">>, <<"tcp">>, <<"open">>, <<"ssh">>,
                      <<"OpenSSH_", "8", ".", "9">> >>
ServiceRowA22Dup == <<IP_A, <<"2", "2">>, <<"tcp">>, <<"open">>, <<"ssh">> >>

ScanningA == << <<"Scanning">>, IP_A \o <<".", ".", ".">> >>
ScanningB == << <<"Scanning">>, IP_B \o <<".", ".", ".">> >>
PortAnnounceA22 == << <<"Port">>, IP_A \o <<":", "2", "2">> >>
ServiceCountLine == << <<"Performing">>, <<"service">>, <<"detection">>, <<"on">>,
                       <<"2">>, <<"open">>, <<"ports">> >>

MarkerLines == {HostDiscoveryMarker, PortScanningMarker, ServiceDetectionMarker,
                ScanCompleteMarker}
HostRows    == {HostRowA, HostRowADup, HostRowB}
PortRows    == {PortRowA22, PortRowA22Dup, PortRowA80Closed, PortRowB23Filtered,
                PortRowB443, PortRowBadPort}
ServiceRows == {ServiceRowA22, ServiceRowA22Dup}

Lines == MarkerLines \cup HostRows \cup PortRows \cup ServiceRows
         \cup {BlankLine, NoiseLine, ScanningA, ScanningB, PortAnnounceA22,
               ServiceCountLine}

-----------------------------------------------------------------------------
(* main                                                                     *)

\* The line reaches the row parsers: it is not blank and none of the
\* markers and announcements is found in it.
ReachesRowParser(toks) ==
    /\ toks # <<>>
    /\ ~Contains(toks, HostDiscoveryMarker) /\ ~Contains(toks, PortScanningMarker)
    /\ ~Contains(toks, ServiceDetectionMarker) /\ ~Contains(toks, ScanCompleteMarker)
    /\ HostScanAt(toks) = 0 /\ ServicePortAt(toks) = 0 /\ ServiceCountAt(toks) = 0

\* The line is a row for the parser of the current phase.
IsRowOfPhase(toks) ==
    /\ ReachesRowParser(toks)
    /\ \/ current_phase = "HOST_DISCOVERY" /\ HostMatch(toks)
       \/ current_phase = "PORT_SCANNING" /\ PortMatch(toks)
       \/ current_phase = "SERVICE_DETECTION" /\ ServiceMatch(toks)

\* History: the rows fed so far, each with the phase it was fed in.
NoteRow(toks) ==
    IF IsRowOfPhase(toks)
    THEN Append(rows_seen, [phase |-> current_phase, toks |-> toks])
    ELSE rows_seen

\* The marker process_line finds in the line: 1 to 4 in the order of the
\* phases, 0 when the line holds no marker.
MarkerRank(toks) ==
    IF toks = <<>> THEN 0
    ELSE IF Contains(toks, HostDiscoveryMarker) THEN 1
    ELSE IF Contains(toks, PortScanningMarker) THEN 2
    ELSE IF Contains(toks, ServiceDetectionMarker) THEN 3
    ELSE IF Contains(toks, ScanCompleteMarker) THEN 4
    ELSE 0

\* History: the marker lines fed so far.
NoteMarker(toks) ==
    IF MarkerRank(toks) # 0 THEN Append(markers_seen, MarkerRank(toks))
    ELSE markers_seen

\* The fields of the parser object take the values of record s.
Becomes(s) ==
    /\ hosts_data' = s.hosts_data
    /\ ports_data' = s.ports_data
    /\ services_data' = s.services_data
    /\ current_phase' = s.current_phase
    /\ current_host' = s.current_host
    /\ current_host_has_ports' = s.current_host_has_ports
    /\ service_count' = s.service_count
    /\ total_services' = s.total_services
    /\ out' = s.out

\* Faulty variant of PartialResults: the final summary is printed only when
\* something was collected.
PartialResults_OnlyWithData(s) ==
    LET s1 == Emit(s, Ev("interrupted", <<>>, <<>>, <<>>, 0))
        s2 == IF s1.current_phase = "PORT_SCANNING" /\ s1.hosts_data # <<>>
              THEN print_host_discovery_summary(s1)
              ELSE IF s1.current_phase = "SERVICE_DETECTION"
              THEN LET s3 == IF s1.hosts_data # <<>>
                             THEN print_host_discovery_summary(s1) ELSE s1
                   IN  IF s3.ports_data # <<>>
                       THEN print_port_scanning_summary(s3) ELSE s3
              ELSE s1
    IN  IF s2.hosts_data # <<>> \/ s2.ports_data # <<>> \/ s2.services_data # <<>>
        THEN print_final_summary(s2)
        ELSE s2

\* Faulty variant of PartialResults: the PORT_SCANNING branch does not test
\* hosts_data.
PartialResults_NoHostsTest(s) ==
    LET s1 == Emit(s, Ev("interrupted", <<>>, <<>>, <<>>, 0))
        s2 == IF s1.current_phase = "PORT_SCANNING"
              THEN print_host_discovery_summary(s1)
              ELSE IF s1.current_phase = "SERVICE_DETECTION"
              THEN LET s3 == IF s1.hosts_data # <<>>
                             THEN print_host_discovery_summary(s1) ELSE s1
                   IN  IF s3.ports_data # <<>>
                       THEN print_port_scanning_summary(s3) ELSE s3
              ELSE s1
    IN  print_final_summary(s2)

\* Faulty variant of PartialResults: the SERVICE_DETECTION branch does not
\* test ports_data.
PartialResults_NoPortsTest(s) ==
    LET s1 == Emit(s, Ev("interrupted", <<>>, <<>>, <<>>, 0))
        s2 == IF s1.current_phase = "PORT_SCANNING" /\ s1.hosts_data # <<>>
              THEN print_host_discovery_summary(s1)
              ELSE IF s1.current_phase = "SERVICE_DETECTION"
              THEN LET s3 == IF s1.hosts_data # <<>>
                             THEN print_host_discovery_summary(s1) ELSE s1
                   IN  print_port_scanning_summary(s3)
              ELSE s1
    IN  print_final_summary(s2)

\* Faulty variant of PartialResults: the SERVICE_DETECTION branch prints the
\* port summary only.
PartialResults_NoHostSummaryInServicePhase(s) ==
    LET s1 == Emit(s, Ev("interrupted", <<>>, <<>>, <<>>, 0))
        s2 == IF s1.current_phase = "PORT_SCANNING" /\ s1.hosts_data # <<>>
              THEN print_host_discovery_summary(s1)
              ELSE IF s1.current_phase = "SERVICE_DETECTION"
              THEN IF s1.ports_data # <<>>
                   THEN print_port_scanning_summary(s1) ELSE s1
              ELSE s1
    IN  print_final_summary(s2)

\* The report main() prints when the loop ends before COMPLETE.
PartialResults(s) ==
    LET s1 == Emit(s, Ev("interrupted", <<>>, <<>>, <<>>, 0))
        s2 == IF s1.current_phase = "PORT_SCANNING" /\ s1.hosts_data # <<>>
              THEN print_host_discovery_summary(s1)
              ELSE IF s1.current_phase = "SERVICE_DETECTION"
              THEN LET s3 == IF s1.hosts_data # <<>>
                             THEN print_host_discovery_summary(s1) ELSE s1
                   IN  IF s3.ports_data # <<>>
                       THEN print_port_scanning_summary(s3) ELSE s3
              ELSE s1
    IN  print_final_summary(s2)

\* Faulty variant of UserInterrupt: the final summary is printed untested.
UserInterrupt_AlwaysSummary(s) ==
    print_final_summary(Emit(s, Ev("interrupted_by_user", <<>>, <<>>, <<>>, 0)))

\* The except KeyboardInterrupt block of main().
UserInterrupt(s) ==
    LET s1 == Emit(s, Ev("interrupted_by_user", <<>>, <<>>, <<>>, 0))
    IN  IF s1.hosts_data # <<>> \/ s1.ports_data # <<>> \/ s1.services_data # <<>>
        THEN print_final_summary(s1)
        ELSE s1

Init ==
    /\ hosts_data = <<>>
    /\ ports_data = <<>>
    /\ services_data = <<>>
    /\ current_phase = "STARTING"
    /\ current_host = None
    /\ current_host_has_ports = FALSE
    /\ service_count = 0
    /\ total_services = 0
    /\ out = print_header([out |-> <<>>]).out
    /\ pc = "reading"
    /\ ending = "none"
    /\ exit_status = -1
    /\ lines_read = 0
    /\ rows_seen = <<>>
    /\ markers_seen = <<>>

\* for line in sys.stdin: parser.process_line(line.rstrip())
ProcessLine(toks) ==
    /\ pc = "reading"
    /\ lines_read < MaxLines
    /\ Becomes(process_line(Self, toks))
    /\ lines_read' = lines_read + 1
    /\ rows_seen' = NoteRow(toks)
    /\ markers_seen' = NoteMarker(toks)
    /\ UNCHANGED <<pc, ending, exit_status>>

\* The input ends: the loop is left and main() returns.
EndOfInput ==
    /\ pc = "reading"
    /\ Becomes(IF current_phase # "COMPLETE" THEN PartialResults(Self) ELSE Self)
    /\ pc' = "done"
    /\ ending' = "eof"
    /\ exit_status' = 0
    /\ UNCHANGED <<lines_read, rows_seen, markers_seen>>

\* The user cancels while main() waits for the next line.
KeyboardInterrupt ==
    /\ pc = "reading"
    /\ Becomes(UserInterrupt(Self))
    /\ pc' = "done"
    /\ ending' = "interrupt"
    /\ exit_status' = 0
    /\ UNCHANGED <<lines_read, rows_seen, markers_seen>>

Next ==
    \/ \E toks \in Lines : ProcessLine(toks)
    \/ EndOfInput
    \/ KeyboardInterrupt

Spec == Init /\ [][Next]_vars

-----------------------------------------------------------------------------
(* Properties of the accumulator.                                           *)

\* Positions in rows_seen of the host rows fed for ip in HOST_DISCOVERY.
HostRowsFor(ip) ==
    {k \in 1..Len(rows_seen) :
        rows_seen[k].phase = "HOST_DISCOVERY" /\ rows_seen[k].toks[1] = ip}

\* The first host row fed for ip.
FirstHostRow(ip) ==
    rows_seen[CHOOSE k \in HostRowsFor(ip) : \A j \in HostRowsFor(ip) : k <= j].toks

\* C1: after any number of host rows for one IP fed in HOST_DISCOVERY, the
\* hosts collection holds exactly one HostRecord for that IP, and its MAC and
\* Vendor are those of the first of these rows ("None" read as absent).
C1_OneHostRecordFromFirstRow ==
    \A k \in 1..Len(rows_seen) :
        rows_seen[k].phase = "HOST_DISCOVERY" =>
            LET ip    == rows_seen[k].toks[1]
                first == FirstHostRow(ip)
                recs  == {i \in 1..Len(hosts_data) : hosts_data[i].IP = ip}
            IN  /\ Cardinality(recs) = 1
                /\ \A i \in recs :
                      /\ hosts_data[i].MAC =
                            (IF first[2] = <<"None">> THEN Absent ELSE first[2])
                      /\ hosts_data[i].Vendor =
                            (IF JoinFrom(first, 3) = <<"None">> THEN Absent
                             ELSE JoinFrom(first, 3))

\* C1 witness: two different rows for the same IP were fed, one record is held.
C1_Witness ==
    /\ \E j, k \in 1..Len(rows_seen) :
          /\ j < k
          /\ rows_seen[j].phase = "HOST_DISCOVERY"
          /\ rows_seen[k].phase = "HOST_DISCOVERY"
          /\ rows_seen[j].toks[1] = rows_seen[k].toks[1]
          /\ rows_seen[j].toks # rows_seen[k].toks
    /\ Len(hosts_data) = 1

\* C2: no two PortRecords share (IP, Port) and no two ServiceRecords share
\* (IP, Port), in every reachable state.
C2_DedupKeysUnique ==
    /\ \A i, j \in 1..Len(ports_data) :
          (ports_data[i].IP = ports_data[j].IP
              /\ ports_data[i].Port = ports_data[j].Port) => i = j
    /\ \A i, j \in 1..Len(services_data) :
          (services_data[i].IP = services_data[j].IP
              /\ services_data[i].Port = services_data[j].Port) => i = j

\* Two rows with the same IP and the same int(port) and with state st were
\* fed in phase ph, the later one with another text.
DuplicateKeyFed(ph, st) ==
    \E j, k \in 1..Len(rows_seen) :
        /\ j < k
        /\ rows_seen[j].phase = ph /\ rows_seen[k].phase = ph
        /\ rows_seen[j].toks[1] = rows_seen[k].toks[1]
        /\ ToInt(rows_seen[j].toks[2]) = ToInt(rows_seen[k].toks[2])
        /\ rows_seen[j].toks[4] = st /\ rows_seen[k].toks[4] = st
        /\ rows_seen[j].toks # rows_seen[k].toks

\* C2 witness: an open-port row was fed again with the port written another
\* way, or a service row was fed again with another text, and one record is
\* held for the key.
C2_Witness ==
    \/ DuplicateKeyFed("PORT_SCANNING", <<"open">>) /\ Len(ports_data) = 1
    \/ DuplicateKeyFed("SERVICE_DETECTION", <<"open">>) /\ Len(services_data) = 1

\* Port rows listed by the Port Scanning summary (host_ports: every record).
SummaryPorts(s) == {s.ports_data[i] : i \in 1..Len(s.ports_data)}

\* Port rows shown as sub-branches of the Network Tree (records of known hosts).
TreePorts(s) ==
    {s.ports_data[i] : i \in {j \in 1..Len(s.ports_data) :
                                 HostKnown(s, s.ports_data[j].IP)}}

\* C3: every PortRecord has State "open", and every port listed by the Port
\* Scanning summary or the Network Tree comes from a row fed with state
\* "open": a "closed" or "filtered" row adds nothing.
C3_OnlyOpenPortsRecorded ==
    /\ \A i \in 1..Len(ports_data) : ports_data[i].State = <<"open">>
    /\ \A p \in SummaryPorts(Self) \cup TreePorts(Self) :
          \E k \in 1..Len(rows_seen) :
              /\ rows_seen[k].phase = "PORT_SCANNING"
              /\ rows_seen[k].toks[4] = <<"open">>
              /\ rows_seen[k].toks[1] = p.IP
              /\ ToInt(rows_seen[k].toks[2]) = p.Port

\* C3 witness: a closed and a filtered row were fed next to an open one.
C3_Witness ==
    /\ \E k \in 1..Len(rows_seen) :
          rows_seen[k].phase = "PORT_SCANNING" /\ rows_seen[k].toks[4] = <<"closed">>
    /\ \E k \in 1..Len(rows_seen) :
          rows_seen[k].phase = "PORT_SCANNING" /\ rows_seen[k].toks[4] = <<"filtered">>
    /\ Len(ports_data) = 1

\* C4: from any reachable state, processing a host, port or service row
\* twice in a row leaves the three collections as processing it once does, and
\* the second occurrence prints nothing.
C4_RowTwiceIsRowOnce ==
    pc = "reading" =>
        \A toks \in HostRows \cup PortRows \cup ServiceRows :
            LET once  == process_line(Self, toks)
                twice == process_line(once, toks)
            IN  /\ twice.hosts_data = once.hosts_data
                /\ twice.ports_data = once.ports_data
                /\ twice.services_data = once.services_data
                /\ twice.out = once.out

\* C4 witness: the same row was fed twice in a row and made one record.
C4_Witness ==
    /\ \E k \in 1..(Len(rows_seen) - 1) : rows_seen[k] = rows_seen[k + 1]
    /\ Len(hosts_data) + Len(ports_data) + Len(services_data) = 1
    /\ Len(out) = 3

-----------------------------------------------------------------------------
(* Properties of the phases.                                                *)

\* Position of a phase in STARTING, HOST_DISCOVERY, ..., COMPLETE.
Rank(phase) ==
    CASE phase = "STARTING" -> 0
      [] phase = "HOST_DISCOVERY" -> 1
      [] phase = "PORT_SCANNING" -> 2
      [] phase = "SERVICE_DETECTION" -> 3
      [] phase = "COMPLETE" -> 4

\* The block that is printed on entry to the phase of rank r, and only then.
IsEntryBlock(ev, r) ==
    CASE r = 1 -> ev.e = "phase_header" /\ ev.txt = <<"HOST DISCOVERY">>
      [] r = 2 -> ev.e = "phase_header" /\ ev.txt = <<"PORT SCANNING">>
      [] r = 3 -> ev.e = "phase_header" /\ ev.txt = <<"SERVICE DETECTION">>
      [] r = 4 -> ev.e = "service_detection_summary"

\* Rank of the phase whose entry block ev is, 0 for any other block.
EntryRank(ev) ==
    IF \E r \in 1..4 : IsEntryBlock(ev, r)
    THEN CHOOSE r \in 1..4 : IsEntryBlock(ev, r)
    ELSE 0

\* A phase was entered, left for another phase and entered again.
SomePhaseRevisited ==
    \E i, j, k \in 1..Len(out) :
        /\ i < j /\ j < k
        /\ EntryRank(out[i]) # 0
        /\ EntryRank(out[j]) # 0
        /\ EntryRank(out[k]) = EntryRank(out[i])
        /\ EntryRank(out[j]) # EntryRank(out[i])

\* The marker lines fed so far came in the order of the phases, each at most once.
MarkersInOrder ==
    \A i, j \in 1..Len(markers_seen) : i < j => markers_seen[i] < markers_seen[j]

\* C5 as stated: for every input the phase never moves to an earlier phase,
\* no phase is entered twice, and COMPLETE is never left.
C5_PhaseForwardOnAnyInput ==
    /\ [][/\ Rank(current_phase') >= Rank(current_phase)
          /\ current_phase = "COMPLETE" => current_phase' = "COMPLETE"]_vars
    /\ [](~SomePhaseRevisited)

\* C5 amended: for every input whose marker lines come in the order of the
\* phases, each at most once, the phase never moves to an earlier phase, no
\* phase is entered twice, and COMPLETE is never left.
C5_PhaseForwardWhenMarkersInOrder ==
    /\ [][MarkersInOrder' =>
             /\ Rank(current_phase') >= Rank(current_phase)
             /\ current_phase = "COMPLETE" => current_phase' = "COMPLETE"]_vars
    /\ [](MarkersInOrder =>
             /\ ~SomePhaseRevisited
             /\ \A r \in 1..4 :
                   Cardinality({i \in 1..Len(out) : IsEntryBlock(out[i], r)}) <= 1)

\* C5 witness: the four markers were fed in order and COMPLETE is reached.
C5_Witness ==
    /\ markers_seen = <<1, 2, 3, 4>>
    /\ current_phase = "COMPLETE"
    /\ \A r \in 1..4 : \E i \in 1..Len(out) : IsEntryBlock(out[i], r)

-----------------------------------------------------------------------------
(* Properties of the end of main().                                         *)

\* The input ended before COMPLETE and main() has returned.
EndedBeforeComplete == pc = "done" /\ ending = "eof" /\ current_phase # "COMPLETE"

\* Position in out of the first block e, 0 if there is none.
FirstAt(e) ==
    LET hits == {i \in 1..Len(out) : out[i].e = e}
    IN  IF hits = {} THEN 0 ELSE CHOOSE i \in hits : \A j \in hits : i <= j

\* The blocks printed after position i, by what they are.
BlocksAfter(i) == [k \in 1..(Len(out) - i) |-> out[i + k].e]

\* The blocks the handler of the end of input printed after its notice.
AfterNotice == BlocksAfter(FirstAt("interrupted"))

\* Block e is among the blocks of sequence blocks.
Has(blocks, e) == \E k \in 1..Len(blocks) : blocks[k] = e

\* C6: when the input ends with the phase not COMPLETE, the interruption
\* notice is printed once and the output ends with the Final Summary and the
\* Network Tree, also for the empty input and for empty collections.
C6_PartialReportAlwaysEnds ==
    EndedBeforeComplete =>
        /\ FirstAt("interrupted") # 0
        /\ Cardinality({i \in 1..Len(out) : out[i].e = "interrupted"}) = 1
        /\ Len(AfterNotice) >= 2
        /\ AfterNotice[Len(AfterNotice) - 1] = "final_summary"
        /\ AfterNotice[Len(AfterNotice)] = "network_tree"

\* C6 witness: the input ended with nothing read and nothing collected.
C6_Witness ==
    /\ EndedBeforeComplete
    /\ lines_read = 0
    /\ hosts_data = <<>> /\ ports_data = <<>> /\ services_data = <<>>
    /\ AfterNotice = <<"final_summary", "network_tree">>

\* C7 as stated: when the input ends with the phase not COMPLETE and hosts
\* were collected, the handler prints the Host Discovery summary, whatever
\* the phase.
C7_HostSummaryInEveryPhase ==
    (EndedBeforeComplete /\ hosts_data # <<>>) =>
        Has(AfterNotice, "host_discovery_summary")

\* C7 amended: when the input ends with the phase not COMPLETE, the handler
\* prints the Host Discovery summary exactly when hosts were collected and
\* the phase is PORT_SCANNING or SERVICE_DETECTION, and prints it first.
C7_HostSummaryAfterHostDiscovery ==
    EndedBeforeComplete =>
        /\ Has(AfterNotice, "host_discovery_summary")
              <=> /\ hosts_data # <<>>
                  /\ current_phase \in {"PORT_SCANNING", "SERVICE_DETECTION"}
        /\ Has(AfterNotice, "host_discovery_summary")
              => AfterNotice[1] = "host_discovery_summary"

\* C7 witness: the input ended in PORT_SCANNING with a host collected.
C7_Witness ==
    /\ EndedBeforeComplete
    /\ current_phase = "PORT_SCANNING"
    /\ hosts_data # <<>>
    /\ AfterNotice = <<"host_discovery_summary", "final_summary", "network_tree">>

\* C8 as stated: when the input ends in PORT_SCANNING or SERVICE_DETECTION
\* the handler prints the Port Scanning summary, with zero open ports when
\* no port row was read.
C8_PortSummaryFromPortScanningOn ==
    (EndedBeforeComplete /\ current_phase \in {"PORT_SCANNING", "SERVICE_DETECTION"}) =>
        \E i \in (FirstAt("interrupted") + 1)..Len(out) :
            out[i].e = "port_scanning_summary" /\ out[i].n = Len(ports_data)

\* C8 amended: when the input ends with the phase not COMPLETE, the handler
\* prints the Port Scanning summary exactly when the phase is
\* SERVICE_DETECTION and an open port was collected; it prints none when the
\* input ends in PORT_SCANNING, with or without port rows.
C8_PortSummaryInServiceDetectionWithPorts ==
    EndedBeforeComplete =>
        /\ Has(AfterNotice, "port_scanning_summary")
              <=> current_phase = "SERVICE_DETECTION" /\ ports_data # <<>>
        /\ \A i \in (FirstAt("interrupted") + 1)..Len(out) :
              out[i].e = "port_scanning_summary" => out[i].n = Len(ports_data)

\* C8 witness: the input ended in SERVICE_DETECTION with an open port collected.
C8_Witness ==
    /\ EndedBeforeComplete
    /\ current_phase = "SERVICE_DETECTION"
    /\ ports_data # <<>>
    /\ Has(AfterNotice, "port_scanning_summary")

\* C9 as stated: when the input ends in SERVICE_DETECTION the handler prints
\* the Service Detection summary before the Final Summary.
C9_ServiceSummaryAtEndOfInput ==
    (EndedBeforeComplete /\ current_phase = "SERVICE_DETECTION") =>
        \E j, k \in 1..Len(AfterNotice) :
            /\ j < k
            /\ AfterNotice[j] = "service_detection_summary"
            /\ AfterNotice[k] = "final_summary"

\* C9 amended: when the input ends in SERVICE_DETECTION the handler prints,
\* after its notice, the Host Discovery summary if hosts were collected, the
\* Port Scanning summary if ports were collected, then the Final Summary and
\* the Network Tree, and no Service Detection summary.
C9_NoServiceSummaryAtEndOfInput ==
    (EndedBeforeComplete /\ current_phase = "SERVICE_DETECTION") =>
        AfterNotice =
            (IF hosts_data # <<>> THEN <<"host_discovery_summary">> ELSE <<>>)
            \o (IF ports_data # <<>> THEN <<"port_scanning_summary">> ELSE <<>>)
            \o <<"final_summary", "network_tree">>

\* C9 witness: the input ended in SERVICE_DETECTION with a service collected.
C9_Witness ==
    /\ EndedBeforeComplete
    /\ current_phase = "SERVICE_DETECTION"
    /\ services_data # <<>>
    /\ AfterNotice = <<"final_summary", "network_tree">>

\* The user cancelled before COMPLETE and main() has returned.
CancelledBeforeComplete ==
    pc = "done" /\ ending = "interrupt" /\ current_phase # "COMPLETE"

\* The blocks printed after the notice of the cancellation.
AfterUserNotice == BlocksAfter(FirstAt("interrupted_by_user"))

\* The blocks the handler of the end of input prints after its notice, from
\* the state the cancellation found.
EndOfInputBlocks ==
    LET i      == FirstAt("interrupted_by_user")
        before == [Self EXCEPT !.out = SubSeq(out, 1, i - 1)]
        after  == PartialResults(before).out
    IN  [k \in 1..(Len(after) - i) |-> after[i + k].e]

-----------------------------------------------------------------------------
(* What the summaries show: the values the print_* methods format from the  *)
(* collections.                                                             *)

\* ord(c) of the characters of a dotted quad.
CharCode(c) == IF c = "." THEN 46 ELSE 48 + DigitVal(c)

\* a < b for two str values (dotted quads), as Python compares them.
RECURSIVE StrLess(_, _)
StrLess(a, b) ==
    IF b = <<>> THEN FALSE
    ELSE IF a = <<>> THEN TRUE
    ELSE IF a[1] # b[1] THEN CharCode(a[1]) < CharCode(b[1])
    ELSE StrLess(Tail(a), Tail(b))

\* tuple(map(int, x.split('.'))): the four numbers of a dotted quad.
Octets(ip) ==
    LET i2 == OctetDot(ip, 1)
        i3 == OctetDot(ip, i2)
        i4 == OctetDot(ip, i3)
    IN  << ToInt(SubSeq(ip, 1, i2 - 2)), ToInt(SubSeq(ip, i2, i3 - 2)),
           ToInt(SubSeq(ip, i3, i4 - 2)), ToInt(SubSeq(ip, i4, Len(ip))) >>

\* a < b for two tuples of four int.
TupleLess(a, b) ==
    \E k \in 1..4 : a[k] < b[k] /\ \A j \in 1..(k - 1) : a[j] = b[j]

\* The values in seq.
Elems(seq) == {seq[i] : i \in 1..Len(seq)}

\* sorted(seq, key=...), a stable sort; before holds the pairs <<x, y>> of
\* values of seq with the key of x smaller than the key of y.  Element i
\* goes after the elements with a smaller key and after the earlier
\* elements with an equal key.
Sorted(seq, before) ==
    LET Pos(i) == 1 + Cardinality({j \in 1..Len(seq) :
                        \/ <<seq[j], seq[i]>> \in before
                        \/ <<seq[i], seq[j]>> \notin before /\ j < i})
    IN  [k \in 1..Len(seq) |-> seq[CHOOSE i \in 1..Len(seq) : Pos(i) = k]]

\* [x for x in seq if x in keep]
Filter(seq, keep) ==
    LET kept == {i \in 1..Len(seq) : seq[i] \in keep}
    IN  [k \in 1..Cardinality(kept) |->
            seq[CHOOSE i \in kept : Cardinality({j \in kept : j <= i}) = k]]

\* The keys of a dict filled from seq with key IP, in insertion order.
RECURSIVE DistinctIPs(_)
DistinctIPs(seq) ==
    IF seq = <<>> THEN <<>>
    ELSE LET rest == DistinctIPs(SubSeq(seq, 1, Len(seq) - 1))
             ip   == seq[Len(seq)].IP
         IN  IF \E i \in 1..Len(rest) : rest[i] = ip THEN rest
             ELSE Append(rest, ip)

\* key=lambda x: (x['IP'], x['Port']) : the IP is compared as a str.
IPPortBefore(x, y) ==
    StrLess(x.IP, y.IP) \/ (x.IP = y.IP /\ x.Port < y.Port)

\* Faulty variant of RiskyPorts: 443 is left out.
RiskyPorts_No443 == {21, 22, 23, 80, 3389, 5900, 8080, 8443}

\* risky_ports of print_final_summary.
RiskyPorts == {21, 22, 23, 80, 443, 3389, 5900, 8080, 8443}

\* found_risky, in the order it is listed.
IsRisky(p) == p.Port \in RiskyPorts
FoundRisky(s) ==
    LET found_risky == Filter(s.ports_data, {p \in Elems(s.ports_data) : IsRisky(p)})
    IN  Sorted(found_risky,
               {xy \in Elems(found_risky) \X Elems(found_risky) :
                   IPPortBefore(xy[1], xy[2])})

\* Faulty variant of ExposureTenths: the fraction is not turned into a percentage.
ExposureTenths_Fraction(unique_hosts_with_ports, total_hosts) ==
    IF total_hosts > 0
    THEN (20 * unique_hosts_with_ports + total_hosts) \div (2 * total_hosts)
    ELSE 0

\* exposure_percent as f"{exposure_percent:.1f}" prints it, in tenths of a
\* percent: the tenth nearest to 100 * unique / total, 0 when total is 0.
ExposureTenths(unique_hosts_with_ports, total_hosts) ==
    IF total_hosts > 0
    THEN (2000 * unique_hosts_with_ports + total_hosts) \div (2 * total_hosts)
    ELSE 0

\* Faulty variant of FinalSummaryBody: the assessment is printed untested.
FinalSummaryBody_AlwaysAssessed(s) ==
    LET unique_hosts_with_ports == Len(DistinctIPs(s.ports_data))
        total_hosts == Len(s.hosts_data)
    IN  [hosts |-> Len(s.hosts_data), ports |-> Len(s.ports_data),
         services |-> Len(s.services_data),
         assessment |-> TRUE,
         unique_hosts_with_ports |-> unique_hosts_with_ports,
         total_hosts |-> total_hosts,
         exposure |-> ExposureTenths(unique_hosts_with_ports, total_hosts),
         risky |-> FoundRisky(s),
         none_detected |-> FoundRisky(s) = <<>>]

\* What print_final_summary shows before the tree: the three totals and,
\* only if ports_data is not empty (assessment), the exposure and the
\* critical services or the notice that none was detected.
FinalSummaryBody(s) ==
    LET unique_hosts_with_ports == Len(DistinctIPs(s.ports_data))
        total_hosts == Len(s.hosts_data)
    IN  [hosts |-> Len(s.hosts_data), ports |-> Len(s.ports_data),
         services |-> Len(s.services_data),
         assessment |-> s.ports_data # <<>>,
         unique_hosts_with_ports |-> unique_hosts_with_ports,
         total_hosts |-> total_hosts,
         exposure |-> ExposureTenths(unique_hosts_with_ports, total_hosts),
         risky |-> FoundRisky(s),
         none_detected |-> s.ports_data # <<>> /\ FoundRisky(s) = <<>>]

\* The output ends with a Final Summary and its Network Tree: they show the
\* collections as they are now.
FinalSummaryJustPrinted ==
    /\ Len(out) >= 2
    /\ out[Len(out) - 1].e = "final_summary"
    /\ out[Len(out)].e = "network_tree"

\* key=lambda x: int(x.split('/')[0]) and key=lambda x: x['Port'].
PortBefore(x, y) == x.Port < y.Port

\* Faulty variant of IPKeyBefore: the keys are compared by their last number only.
IPKeyBefore_LastOctet(x, y) == Octets(x)[4] < Octets(y)[4]

\* key=lambda x: tuple(map(int, x.split('.')))
IPKeyBefore(x, y) == TupleLess(Octets(x), Octets(y))

\* sorted(ports, key=...) with the port number as the key.
SortedByPort(ports) ==
    Sorted(ports, {xy \in Elems(ports) \X Elems(ports) : PortBefore(xy[1], xy[2])})

\* The records of seq for ip, in the order of seq.
RecordsOf(seq, ip) ==
    Filter(seq, {x \in Elems(seq) : x.IP = ip})

\* What print_port_scanning_summary lists under "Open ports by host": the
\* keys of host_ports as sorted() orders str values, each with its ports
\* sorted by number.
PortSummaryBody(s) ==
    LET host_ports == DistinctIPs(s.ports_data)
        ips == Sorted(host_ports,
                      {xy \in Elems(host_ports) \X Elems(host_ports) :
                          StrLess(xy[1], xy[2])})
    IN  [total |-> Len(s.ports_data),
         by_host |-> [k \in 1..Len(ips) |->
                        [ip |-> ips[k],
                         ports |-> SortedByPort(RecordsOf(s.ports_data, ips[k]))]],
         hosts_with_ports |-> Len(host_ports),
         total_hosts |-> Len(s.hosts_data)]

\* The Port Scanning summary was printed from the PortRecords of this state.
PortSummaryPrinted ==
    \E i \in 1..Len(out) :
        out[i].e = "port_scanning_summary" /\ out[i].n = Len(ports_data)

\* What print_network_tree draws under the network line: one branch per key
\* of host_tree in the order of the numeric key, each with its ports sorted
\* by number; a branch without ports gets the leaf "(no open ports)".
TreeBody(s) ==
    LET host_tree == DistinctIPs(s.hosts_data)
        sorted_hosts == Sorted(host_tree,
                               {xy \in Elems(host_tree) \X Elems(host_tree) :
                                   IPKeyBefore(xy[1], xy[2])})
    IN  [k \in 1..Len(sorted_hosts) |->
            LET host_ports == RecordsOf(s.ports_data, sorted_hosts[k])
            IN  [ip |-> sorted_hosts[k],
                 no_open_ports |-> host_ports = <<>>,
                 ports |-> SortedByPort(host_ports)]]

\* The Network Tree is the last thing printed.
TreeJustPrinted == out[Len(out)].e = "network_tree"

-----------------------------------------------------------------------------
(* Complete scans: main() reading an input whose markers come in the order  *)
(* of the phases, each once, with nothing after "Scan complete!".           *)

MaxRunLines == 7

IP_S == <<"1", "9", "2", ".", "1", "6", "8", ".", "1", ".", "1">>

\* 192.168.1.1  AA:BB:CC:DD:EE:FF  Acme Corp
ScenarioHostRow == <<IP_S, MAC_A, <<"Acme">>, <<"Corp">> >>
\* 192.168.1.1 22 tcp open ssh-reason ssh
ScenarioPortRow ==
    <<IP_S, <<"2", "2">>, <<"tcp">>, <<"open">>, <<"ssh", "-", "reason">>, <<"ssh">> >>
\* 192.168.1.1 22 tcp open ssh OpenSSH_8.9
ScenarioServiceRow ==
    <<IP_S, <<"2", "2">>, <<"tcp">>, <<"open">>, <<"ssh">>, <<"OpenSSH_", "8", ".", "9">> >>

PortRowA21 == <<IP_A, <<"2", "1">>, <<"tcp">>, <<"open">>, <<"syn", "-", "ack">>, <<"ftp">> >>

RunLines == MarkerLines
            \cup {ScenarioHostRow, ScenarioPortRow, ScenarioServiceRow,
                  HostRowB, HostRowA, PortRowA22, PortRowA21, ScanningA}

\* The line may come next in a complete scan.
ComesNext(toks) ==
    /\ Len(markers_seen) < 4
    /\ MarkerRank(toks) # 0 => MarkerRank(toks) = Len(markers_seen) + 1

\* for line in sys.stdin: parser.process_line(line.rstrip())
RunLine(toks) ==
    /\ pc = "reading"
    /\ lines_read < MaxRunLines
    /\ ComesNext(toks)
    /\ Becomes(process_line(Self, toks))
    /\ lines_read' = lines_read + 1
    /\ rows_seen' = NoteRow(toks)
    /\ markers_seen' = NoteMarker(toks)
    /\ UNCHANGED <<pc, ending, exit_status>>

NextRun ==
    \/ \E toks \in RunLines : RunLine(toks)
    \/ EndOfInput

SpecRun == Init /\ [][NextRun]_vars

-----------------------------------------------------------------------------
(* Lines of more than one shape: main() reading lines in which a marker, an *)
(* announcement or a row come together.                                     *)

MaxRouteLines == 3

\* === PORT SCANNING === Scanning 10.0.0.2...
MarkerAndScanning == PortScanningMarker \o ScanningA
\* Scanning 10.0.0.2... Port 10.0.0.2:22
ScanningAndPort == ScanningA \o PortAnnounceA22
\* Port 10.0.0.2:22 Performing service detection on 7 open ports
PortAndCount ==
    PortAnnounceA22 \o << <<"Performing">>, <<"service">>, <<"detection">>, <<"on">>,
                          <<"7">>, <<"open">>, <<"ports">> >>
\* 10.0.0.10 None Scanning 10.0.0.10...
HostRowAndScanning == <<IP_B, <<"None">> >> \o ScanningB
\* 10.0.0.10 None Performing service detection on 9 open ports
HostRowAndCount ==
    <<IP_B, <<"None">>, <<"Performing">>, <<"service">>, <<"detection">>, <<"on">>,
      <<"9">>, <<"open">>, <<"ports">> >>
\* Scan complete! === HOST DISCOVERY ===
TwoMarkers == ScanCompleteMarker \o HostDiscoveryMarker

MixedLines == {MarkerAndScanning, ScanningAndPort, PortAndCount,
               HostRowAndScanning, HostRowAndCount, TwoMarkers}

RouteLines == MixedLines \cup MarkerLines
              \cup {ScanningA, PortAnnounceA22, ServiceCountLine,
                    HostRowA, PortRowA22, ServiceRowA22, NoiseLine}

\* for line in sys.stdin: parser.process_line(line.rstrip())
RouteLine(toks) ==
    /\ pc = "reading"
    /\ lines_read < MaxRouteLines
    /\ Becomes(process_line(Self, toks))
    /\ lines_read' = lines_read + 1
    /\ rows_seen' = NoteRow(toks)
    /\ markers_seen' = NoteMarker(toks)
    /\ UNCHANGED <<pc, ending, exit_status>>

NextRoute ==
    \/ \E toks \in RouteLines : RouteLine(toks)
    \/ EndOfInput

SpecRoute == Init /\ [][NextRoute]_vars

-----------------------------------------------------------------------------
(* Port scans: main() reading announcements of hosts, port rows and the     *)
(* markers around PORT_SCANNING, in any order.                              *)

MaxScanLines == 5

\* 10.0.0.10 70000 tcp open syn-ack http
PortRowB70000 ==
    <<IP_B, <<"7", "0", "0", "0", "0">>, <<"tcp">>, <<"open">>, <<"syn", "-", "ack">>,
      <<"http">> >>

ScanLines == {PortScanningMarker, ServiceDetectionMarker, ScanningA, ScanningB,
              PortRowA22, PortRowB70000}

\* for line in sys.stdin: parser.process_line(line.rstrip())
ScanLine(toks) ==
    /\ pc = "reading"
    /\ lines_read < MaxScanLines
    /\ Becomes(process_line(Self, toks))
    /\ lines_read' = lines_read + 1
    /\ rows_seen' = NoteRow(toks)
    /\ markers_seen' = NoteMarker(toks)
    /\ UNCHANGED <<pc, ending, exit_status>>

NextScan ==
    \/ \E toks \in ScanLines : ScanLine(toks)
    \/ EndOfInput

SpecScan == Init /\ [][NextScan]_vars

-----------------------------------------------------------------------------
(* Properties of the Final Summary.                                         *)

\* Number of distinct IPs that have a PortRecord.
HostsWithPorts == Cardinality({ports_data[i].IP : i \in 1..Len(ports_data)})

\* |x|
Abs(x) == IF x < 0 THEN -x ELSE x

\* C11: the network exposure shown in the Final Summary is 100 * (distinct
\* IPs with a PortRecord) / (number of HostRecords), to the tenth printed,
\* and 0 when there is no HostRecord, in every reachable state.
C11_ExposureIsRatioOfHosts ==
    LET b == FinalSummaryBody(Self)
        t == Len(hosts_data)
    IN  b.assessment =>
            /\ b.unique_hosts_with_ports = HostsWithPorts
            /\ b.total_hosts = t
            /\ t = 0 => b.exposure = 0
            /\ t > 0 => 2 * Abs(b.exposure * t - 1000 * HostsWithPorts) <= t

\* C11 witness: a Final Summary was printed for one host with an open port.
C11_Witness ==
    /\ FinalSummaryJustPrinted
    /\ Len(hosts_data) = 1 /\ Len(ports_data) = 1
    /\ FinalSummaryBody(Self).assessment
    /\ FinalSummaryBody(Self).exposure = 1000

\* The input ended in PORT_SCANNING with a host and no open port collected.
EndedInPortScanningWithoutPorts ==
    /\ EndedBeforeComplete
    /\ current_phase = "PORT_SCANNING"
    /\ hosts_data # <<>>
    /\ ports_data = <<>>

\* C12 as stated: when the input ends after the PORT SCANNING marker with a
\* host and no open-port row, the Final Summary of the handler shows a
\* network exposure, and it is 0.0%.
C12_ZeroExposureShown ==
    EndedInPortScanningWithoutPorts =>
        /\ FinalSummaryJustPrinted
        /\ FinalSummaryBody(Self).assessment
        /\ FinalSummaryBody(Self).exposure = 0

\* C12 amended: in that case the Final Summary of the handler shows the
\* totals (hosts found, zero open ports) and no network exposure at all.
C12_NoExposureWithoutPorts ==
    EndedInPortScanningWithoutPorts =>
        /\ FinalSummaryJustPrinted
        /\ ~FinalSummaryBody(Self).assessment
        /\ FinalSummaryBody(Self).hosts = Len(hosts_data)
        /\ FinalSummaryBody(Self).ports = 0

\* C12 witness: the input ended so, after one host row.
C12_Witness ==
    /\ EndedInPortScanningWithoutPorts
    /\ Len(hosts_data) = 1
    /\ markers_seen = <<1, 2>>

\* The ports of the fixed list of the Final Summary.
ListedAsRisky == {21, 22, 23, 80, 443, 3389, 5900, 8080, 8443}

\* The risky list of body b holds exactly the PortRecords with a port of the
\* fixed list, in the order of (IP, Port), the IP compared as text.
RiskyListIsRight(b) ==
    /\ {b.risky[i] : i \in 1..Len(b.risky)} =
          {ports_data[i] : i \in {j \in 1..Len(ports_data) :
                                     ports_data[j].Port \in ListedAsRisky}}
    /\ \A i, j \in 1..Len(b.risky) :
          i < j => \/ StrLess(b.risky[i].IP, b.risky[j].IP)
                   \/ /\ b.risky[i].IP = b.risky[j].IP
                      /\ b.risky[i].Port < b.risky[j].Port

-----------------------------------------------------------------------------
(* Properties of the Port Scanning summary and of the Network Tree.         *)

\* The ports of sequence ports ascend by number.
PortsAscend(ports) ==
    \A i, j \in 1..Len(ports) : i < j => ports[i].Port < ports[j].Port

\* C16: the Port Scanning summary lists the hosts that have open ports in
\* ascending numeric order of their IP (10.0.0.2 before 10.0.0.10), and the
\* ports of each host in ascending order of the port number.
C16_PortSummaryInNumericOrder ==
    PortSummaryPrinted =>
        LET b == PortSummaryBody(Self).by_host
        IN  /\ \A i, j \in 1..Len(b) :
                  i < j => TupleLess(Octets(b[i].ip), Octets(b[j].ip))
            /\ \A i \in 1..Len(b) : PortsAscend(b[i].ports)

\* The PortRecords of ip.
PortRecordsOf(ip) ==
    {ports_data[i] : i \in {j \in 1..Len(ports_data) : ports_data[j].IP = ip}}

\* C17: the Network Tree has one branch per HostRecord, in ascending numeric
\* order of the IP; a branch has the leaf "(no open ports)" exactly when no
\* PortRecord has its IP, and otherwise one sub-branch per PortRecord of
\* that IP, in ascending order of the port.
C17_TreeBranches ==
    TreeJustPrinted =>
        LET t == TreeBody(Self)
        IN  /\ Len(t) = Len(hosts_data)
            /\ {t[i].ip : i \in 1..Len(t)} =
                  {hosts_data[i].IP : i \in 1..Len(hosts_data)}
            /\ \A i, j \in 1..Len(t) :
                  i < j => TupleLess(Octets(t[i].ip), Octets(t[j].ip))
            /\ \A i \in 1..Len(t) :
                  /\ t[i].no_open_ports <=> PortRecordsOf(t[i].ip) = {}
                  /\ {t[i].ports[k] : k \in 1..Len(t[i].ports)} = PortRecordsOf(t[i].ip)
                  /\ Len(t[i].ports) = Cardinality(PortRecordsOf(t[i].ip))
                  /\ PortsAscend(t[i].ports)

\* C17 witness: a tree was printed for 10.0.0.10 and 10.0.0.2 found in this
\* order, the first without an open port, the second with 22 and 21 found
\* in this order.
C17_Witness ==
    /\ TreeJustPrinted
    /\ Len(hosts_data) = 2
    /\ hosts_data[1].IP = IP_B /\ hosts_data[2].IP = IP_A
    /\ TreeBody(Self)[1].ip = IP_A
    /\ TreeBody(Self)[2].no_open_ports
    /\ Len(ports_data) = 2
    /\ ports_data[1].Port = 22
    /\ TreeBody(Self)[1].ports = <<ports_data[2], ports_data[1]>>

-----------------------------------------------------------------------------
(* Properties of process_line.                                              *)

\* Lines shaped as port rows whose port field is not a number.
PortRowMixedPort ==
    <<IP_B, <<"4", "4", "3", "x">>, <<"tcp">>, <<"open">>, <<"syn", "-", "ack">>, <<"https">> >>
MalformedPortRows == {PortRowBadPort, PortRowMixedPort}

\* C14: in PORT_SCANNING a line shaped as a port row with a non-numeric port
\* changes no field of the parser and prints nothing, and a valid open-port
\* row after it is handled as if the malformed line had not come.
C14_MalformedPortRowSkipped ==
    (pc = "reading" /\ current_phase = "PORT_SCANNING") =>
        \A bad \in MalformedPortRows :
            LET skipped == process_line(Self, bad)
            IN  /\ skipped = Self
                /\ \A row \in PortRows \cup {PortRowA21} :
                      process_line(skipped, row) = process_line(Self, row)

\* C14 witness: in PORT_SCANNING, after an open port was recorded, a
\* malformed row is skipped and the valid row after it is recorded.
C14_Witness ==
    /\ pc = "reading" /\ current_phase = "PORT_SCANNING"
    /\ Len(ports_data) = 1
    /\ ~current_host_has_ports
    /\ LET skipped == process_line(Self, PortRowBadPort)
           after   == process_line(skipped, PortRowB443)
       IN  /\ skipped.out = out
           /\ Len(after.ports_data) = 2
           /\ after.out[Len(after.out)].e = "port_open"

\* The phase a marker names, by the rank of the marker.
MarkerPhase(r) ==
    CASE r = 1 -> "HOST_DISCOVERY"
      [] r = 2 -> "PORT_SCANNING"
      [] r = 3 -> "SERVICE_DETECTION"
      [] r = 4 -> "COMPLETE"

\* The first of the five shapes the line has: 1 marker, 2 "Scanning <ip>",
\* 3 "Port <ip>:<port>", 4 service count, 5 none of them (a row or noise).
FirstShape(toks) ==
    IF MarkerRank(toks) # 0 THEN 1
    ELSE IF HostScanAt(toks) # 0 THEN 2
    ELSE IF ServicePortAt(toks) # 0 THEN 3
    ELSE IF ServiceCountAt(toks) # 0 THEN 4
    ELSE 5

\* What parser state r printed after the present output.
PrintedBy(r) == SubSeq(r.out, Len(out) + 1, Len(r.out))

\* Block e is among the blocks r printed.
Did(r, e) == \E i \in 1..Len(PrintedBy(r)) : PrintedBy(r)[i].e = e

\* r came from the present state by the marker handler and no other.
OnlyMarkerHandled(r, toks) ==
    /\ r.current_phase = MarkerPhase(MarkerRank(toks))
    /\ Did(r, "phase_header") \/ Did(r, "service_detection_summary")
    /\ ~Did(r, "scanning") /\ ~Did(r, "analyzing")
    /\ ~Did(r, "host_discovered") /\ ~Did(r, "port_open") /\ ~Did(r, "service")
    /\ r.hosts_data = hosts_data /\ r.ports_data = ports_data
    /\ r.services_data = services_data
    /\ r.current_host = current_host
    /\ r.total_services =
          IF MarkerRank(toks) = 3 THEN Len(ports_data) ELSE total_services

\* r came from the present state by the "Scanning" handler and no other.
OnlyScanningHandled(r, toks) ==
    /\ r.current_host = HostScanGroup(toks) /\ ~r.current_host_has_ports
    /\ PrintedBy(r)[Len(PrintedBy(r))].e = "scanning"
    /\ \A i \in 1..(Len(PrintedBy(r)) - 1) : PrintedBy(r)[i].e = "no_open_ports"
    /\ r.current_phase = current_phase
    /\ r.hosts_data = hosts_data /\ r.ports_data = ports_data
    /\ r.services_data = services_data
    /\ r.total_services = total_services /\ r.service_count = service_count

\* r came from the present state by the "Port" handler and no other.
OnlyPortHandled(r, toks) ==
    /\ Len(PrintedBy(r)) = 1 /\ Did(r, "analyzing")
    /\ [r EXCEPT !.out = out] = Self

\* r came from the present state by the service-count handler and no other.
OnlyCountHandled(r, toks) ==
    r = [Self EXCEPT !.total_services = ToInt(toks[ServiceCountAt(toks)])]

\* r came from the present state by the row parser of the phase alone.
OnlyRowHandled(r, toks) ==
    /\ \A i \in 1..Len(PrintedBy(r)) :
          PrintedBy(r)[i].e \in {"host_discovered", "port_open", "service"}
    /\ Len(PrintedBy(r)) <= 1
    /\ r.current_phase = current_phase
    /\ r.current_host = current_host
    /\ r.total_services = total_services
    /\ current_phase \in {"STARTING", "COMPLETE"} => r = Self

\* C19: every non-blank line is handled by one handler, the first in the
\* order marker, "Scanning <ip>", "Port <ip>:<port>", service count, row
\* parser of the phase whose shape the line has; the first four shapes are
\* told from the line alone, in every phase; a line that also has a later
\* shape is not handled as that one too.
C19_RoutedToFirstMatchOnly ==
    pc = "reading" =>
        \A toks \in RouteLines :
            LET r == process_line(Self, toks)
            IN  CASE FirstShape(toks) = 1 -> OnlyMarkerHandled(r, toks)
                  [] FirstShape(toks) = 2 -> OnlyScanningHandled(r, toks)
                  [] FirstShape(toks) = 3 -> OnlyPortHandled(r, toks)
                  [] FirstShape(toks) = 4 -> OnlyCountHandled(r, toks)
                  [] FirstShape(toks) = 5 -> OnlyRowHandled(r, toks)

\* C19 witness: in HOST_DISCOVERY the line "10.0.0.10 None Scanning
\* 10.0.0.10..." was announced as a scan of 10.0.0.10 and made no HostRecord.
C19_Witness ==
    /\ current_phase = "HOST_DISCOVERY"
    /\ out[Len(out)].e = "scanning" /\ out[Len(out)].ip = IP_B
    /\ hosts_data = <<>>
    /\ HostMatch(HostRowAndScanning) /\ FirstShape(HostRowAndScanning) = 2

\* C20: a marker line sets the phase the marker names whatever the phase
\* was, also when it is not the next phase: in every phase every marker
\* line has this effect, and after the marker lines fed the phase is the
\* one named by the last of them.
C20_MarkerAlwaysSetsPhase ==
    /\ markers_seen # <<>> =>
          current_phase = MarkerPhase(markers_seen[Len(markers_seen)])
    /\ pc = "reading" =>
          \A toks \in MarkerLines :
              process_line(Self, toks).current_phase = MarkerPhase(MarkerRank(toks))

\* C20 witness: a marker of an earlier phase came after a later one and the
\* phase is the one it names.
C20_Witness ==
    /\ Len(markers_seen) = 2
    /\ markers_seen[2] < markers_seen[1]
    /\ current_phase = MarkerPhase(markers_seen[2])
    /\ out[Len(out)].e = "phase_header"

-----------------------------------------------------------------------------
(* Properties of complete scans.                                            *)

\* The summaries, phase headers and notices among the printed events.
IsBlock(ev) ==
    ev.e \in {"phase_header", "host_discovery_summary", "port_scanning_summary",
              "service_detection_summary", "final_summary", "network_tree",
              "interrupted", "interrupted_by_user"}

\* The blocks printed so far in their order, a phase header by its title.
BlocksPrinted ==
    LET blocks == Filter(out, {ev \in Elems(out) : IsBlock(ev)})
    IN  [k \in 1..Len(blocks) |->
            IF blocks[k].e = "phase_header" THEN blocks[k].txt[1] ELSE blocks[k].e]

\* The blocks of a complete scan.
BlocksOfCompleteScan ==
    <<"HOST DISCOVERY",
      "host_discovery_summary", "PORT SCANNING",
      "port_scanning_summary", "SERVICE DETECTION",
      "service_detection_summary", "final_summary", "network_tree">>

\* How many of them are printed once the first k markers have come.
BlocksUpTo(k) == CASE k = 0 -> 0 [] k = 1 -> 1 [] k = 2 -> 3 [] k = 3 -> 5 [] k = 4 -> 8

\* The markers fed so far are the first markers of a complete scan.
MarkersOfCompleteScan ==
    /\ Len(markers_seen) <= 4
    /\ \A i \in 1..Len(markers_seen) : markers_seen[i] = i

\* C13: for an input with the four markers in order, each once, and "Scan
\* complete!" last, the Host Discovery summary is printed on entry to
\* PORT_SCANNING before its header, the Port Scanning summary on entry to
\* SERVICE_DETECTION before its header, the Service Detection summary on
\* entry to COMPLETE before the Final Summary, and the Final Summary with
\* its Network Tree is the last output.
C13_SummariesAtPhaseEntry ==
    (MarkersOfCompleteScan /\ (ending = "none" \/ Len(markers_seen) = 4)) =>
        /\ BlocksPrinted = SubSeq(BlocksOfCompleteScan, 1, BlocksUpTo(Len(markers_seen)))
        /\ Len(markers_seen) = 4 => FinalSummaryJustPrinted

\* C13 witness: a complete scan with hosts, a host announced without open
\* ports and an open port has come to its end.
C13_Witness ==
    /\ markers_seen = <<1, 2, 3, 4>>
    /\ pc = "done" /\ ending = "eof"
    /\ hosts_data # <<>> /\ ports_data # <<>>
    /\ \E i \in 1..Len(out) : out[i].e = "no_open_ports"

\* The input was scenario A, line by line.
ScenarioA ==
    /\ lines_read = 7
    /\ markers_seen = <<1, 2, 3, 4>>
    /\ rows_seen = << [phase |-> "HOST_DISCOVERY", toks |-> ScenarioHostRow],
                      [phase |-> "PORT_SCANNING", toks |-> ScenarioPortRow],
                      [phase |-> "SERVICE_DETECTION", toks |-> ScenarioServiceRow] >>

\* How many blocks e were printed.
Count(e) == Cardinality({i \in 1..Len(out) : out[i].e = e})

\* C15: scenario A gives one host (192.168.1.1, vendor Acme Corp), one open
\* port (22/ssh), one service with fingerprint OpenSSH_8.9, a network
\* exposure of 100.0% (1/1), port 22 among the risky ports, and no
\* interruption notice.
C15_ScenarioA ==
    ScenarioA =>
        /\ hosts_data = << [IP |-> IP_S, MAC |-> MAC_A,
                            Vendor |-> <<"Acme", " ", "Corp">>] >>
        /\ Count("host_discovered") = 1
        /\ Len(ports_data) = 1
        /\ ports_data[1].IP = IP_S /\ ports_data[1].Port = 22
        /\ ports_data[1].Service = <<"ssh">>
        /\ Count("port_open") = 1
        /\ Len(services_data) = 1
        /\ services_data[1].IP = IP_S /\ services_data[1].Port = 22
        /\ services_data[1].Fingerprint = <<"OpenSSH_", "8", ".", "9">>
        /\ Count("service") = 1
        /\ FinalSummaryJustPrinted /\ Count("final_summary") = 1
        /\ LET b == FinalSummaryBody(Self)
           IN  /\ b.hosts = 1 /\ b.ports = 1 /\ b.services = 1
               /\ b.assessment
               /\ b.exposure = 1000
               /\ b.unique_hosts_with_ports = 1 /\ b.total_hosts = 1
               /\ b.risky = <<ports_data[1]>>
               /\ ~b.none_detected
        /\ Count("interrupted") = 0 /\ Count("interrupted_by_user") = 0

\* C15 witness: scenario A was read to the end of the input.
C15_Witness ==
    /\ ScenarioA
    /\ pc = "done" /\ ending = "eof" /\ exit_status = 0
    /\ current_phase = "COMPLETE"

-----------------------------------------------------------------------------
(* Properties of the host transition and of the announcements.              *)

\* The blocks r printed after the present output, a phase header by its title.
TitlesPrintedBy(r) ==
    [k \in 1..Len(PrintedBy(r)) |->
        IF PrintedBy(r)[k].e = "phase_header" THEN PrintedBy(r)[k].txt[1]
        ELSE PrintedBy(r)[k].e]

\* The host announced last has shown no open port while in PORT_SCANNING.
HostLeftWithoutPorts ==
    /\ current_phase = "PORT_SCANNING"
    /\ current_host # None
    /\ ~current_host_has_ports

\* C21: on the SERVICE DETECTION marker, if the phase was PORT_SCANNING and
\* a current host is set whose flag is false, the "(no open ports)" notice
\* is printed first (and not otherwise); then the Port Scanning summary,
\* then the phase header; afterwards the running service counter is 0 and
\* the expected total is the number of PortRecords.
C21_EnterServiceDetection ==
    pc = "reading" =>
        LET r == process_line(Self, ServiceDetectionMarker)
        IN  /\ TitlesPrintedBy(r) =
                  (IF HostLeftWithoutPorts THEN <<"no_open_ports">> ELSE <<>>)
                  \o <<"port_scanning_summary", "SERVICE DETECTION">>
            /\ r.service_count = 0
            /\ r.total_services = Len(ports_data)
            /\ r.ports_data = ports_data
            /\ r.current_phase = "SERVICE_DETECTION"

\* C21 witness: SERVICE_DETECTION was entered from PORT_SCANNING with an
\* open port recorded and a host announced after it that showed none.
C21_Witness ==
    /\ current_phase = "SERVICE_DETECTION"
    /\ markers_seen = <<2, 3>>
    /\ Len(out) >= 3
    /\ out[Len(out) - 2].e = "no_open_ports"
    /\ out[Len(out) - 1].e = "port_scanning_summary"
    /\ out[Len(out)].e = "phase_header"
    /\ Len(ports_data) = 1 /\ total_services = 1 /\ service_count = 0

\* The "(no open ports)" notices printed for the host announced at position
\* i of out: those after i and not after the next announcement.
NoticesFor(i) ==
    {k \in (i + 1)..Len(out) :
        /\ out[k].e = "no_open_ports"
        /\ \A j \in (i + 1)..(k - 1) : out[j].e # "scanning"}

\* C22: for each "Scanning <ip>" announcement the "(no open ports)" notice
\* of the announced host is printed at most once in the rest of the run, by
\* a later "Scanning" line or by the entry into SERVICE_DETECTION, for
\* every input.
C22_NoticeAtMostOncePerAnnouncement ==
    \A i \in 1..Len(out) :
        out[i].e = "scanning" => Cardinality(NoticesFor(i)) <= 1

\* The "Scanning <ip>" lines and the IP each announces.
Announcements == {[toks |-> ScanningA, ip |-> IP_A], [toks |-> ScanningB, ip |-> IP_B]}

\* C23: a "Scanning <ip>" line, in any phase, runs the host-transition
\* check on the host that was current before it, then makes the announced
\* IP the current host with its flag false; it adds no record and does not
\* change the phase.
C23_ScanningLine ==
    pc = "reading" =>
        \A a \in Announcements :
            LET r == process_line(Self, a.toks)
            IN  /\ TitlesPrintedBy(r) =
                      (IF HostLeftWithoutPorts THEN <<"no_open_ports">> ELSE <<>>)
                      \o <<"scanning">>
                /\ r.out[Len(r.out)].ip = a.ip
                /\ r.current_host = a.ip
                /\ ~r.current_host_has_ports
                /\ r.hosts_data = hosts_data /\ r.ports_data = ports_data
                /\ r.services_data = services_data
                /\ r.current_phase = current_phase

\* C23 witness: in PORT_SCANNING 10.0.0.10 was announced after a host that
\* showed no open port; the notice came before the announcement.
C23_Witness ==
    /\ current_phase = "PORT_SCANNING"
    /\ Len(out) >= 3
    /\ out[Len(out) - 2].e = "scanning"
    /\ out[Len(out) - 1].e = "no_open_ports"
    /\ out[Len(out)].e = "scanning" /\ out[Len(out)].ip = IP_B
    /\ current_host = IP_B /\ ~current_host_has_ports

-----------------------------------------------------------------------------
(* Frame properties.                                                        *)

\* Sequence a is the beginning of sequence b.
IsPrefix(a, b) == Len(a) <= Len(b) /\ SubSeq(b, 1, Len(a)) = a

\* Parser state r differs from the present state in its output at most.
OnlyPrinted(r) == [r EXCEPT !.out = out] = Self

\* C24: with every step each of the three collections keeps what it held as
\* its beginning (nothing is removed, reordered or modified), and printing
\* the Host Discovery, Port Scanning or Service Detection summary, the Final
\* Summary or the Network Tree changes no collection, nor the phase, the
\* current host or its flag; so the reports at the end of the input change
\* none of them.
C24_AppendOnly ==
    /\ [][/\ IsPrefix(hosts_data, hosts_data')
          /\ IsPrefix(ports_data, ports_data')
          /\ IsPrefix(services_data, services_data')
          /\ pc' = "done" =>
                UNCHANGED <<hosts_data, ports_data, services_data, current_phase,
                            current_host, current_host_has_ports>>]_vars
    /\ [](/\ OnlyPrinted(print_host_discovery_summary(Self))
          /\ OnlyPrinted(print_port_scanning_summary(Self))
          /\ OnlyPrinted(print_service_detection_summary(Self))
          /\ OnlyPrinted(print_final_summary(Self))
          /\ OnlyPrinted(print_network_tree(Self)))

\* C24 witness: two hosts were recorded one after the other, the Host
\* Discovery summary was printed after them, and both records are in place.
C24_Witness ==
    /\ Len(hosts_data) = 2
    /\ Len(rows_seen) = 2
    /\ \A i \in 1..2 : hosts_data[i].IP = rows_seen[i].toks[1]
    /\ out[Len(out) - 1].e = "host_discovery_summary"
    /\ out[Len(out) - 1].n = 2
    /\ current_phase = "PORT_SCANNING"

\* The line is matched by no pattern of process_line in the present phase.
Unmatched(toks) == ReachesRowParser(toks) /\ ~IsRowOfPhase(toks)

\* C25: hosts are added only while the phase is HOST_DISCOVERY, ports only
\* while it is PORT_SCANNING, services only while it is SERVICE_DETECTION;
\* a row while the phase is STARTING or COMPLETE, and a blank or unmatched
\* line in any phase, changes no collection and prints nothing.
C25_RowsOnlyInTheirPhase ==
    /\ [][/\ hosts_data' # hosts_data => current_phase = "HOST_DISCOVERY"
          /\ ports_data' # ports_data => current_phase = "PORT_SCANNING"
          /\ services_data' # services_data => current_phase = "SERVICE_DETECTION"]_vars
    /\ [](pc = "reading" =>
            \A toks \in Lines :
                (\/ toks = BlankLine
                 \/ Unmatched(toks)
                 \/ /\ toks \in HostRows \cup PortRows \cup ServiceRows
                    /\ current_phase \in {"STARTING", "COMPLETE"})
                => process_line(Self, toks) = Self)

\* C25 witness: a host was recorded in HOST_DISCOVERY and a port in
\* PORT_SCANNING, where a further host row is left aside.
C25_Witness ==
    /\ pc = "reading" /\ current_phase = "PORT_SCANNING"
    /\ Len(rows_seen) = 2
    /\ rows_seen[1].phase = "HOST_DISCOVERY" /\ rows_seen[2].phase = "PORT_SCANNING"
    /\ Len(hosts_data) = 1 /\ Len(ports_data) = 1
    /\ ~HostKnown(Self, IP_B)
    /\ process_line(Self, HostRowB) = Self

\* Performing service detection on 1 open port
ServiceCountLineOne == << <<"Performing">>, <<"service">>, <<"detection">>, <<"on">>,
                          <<"1">>, <<"open">>, <<"port">> >>

\* The service-count lines and the number each announces.
CountAnnouncements == {[toks |-> ServiceCountLine, n |-> 2],
                       [toks |-> ServiceCountLineOne, n |-> 1]}

\* C26: a "Port <ip>:<port>" line prints its log line and changes nothing of
\* the session; a "Performing service detection on N open ports" line sets
\* the expected total to N, prints nothing and changes nothing else: not the
\* phase, the current host, its flag, the running counter or a collection.
C26_AnnouncementsFrame ==
    pc = "reading" =>
        /\ LET r == process_line(Self, PortAnnounceA22)
           IN  /\ OnlyPrinted(r)
               /\ Len(PrintedBy(r)) = 1
               /\ PrintedBy(r)[1].e = "analyzing"
               /\ PrintedBy(r)[1].ip = IP_A /\ PrintedBy(r)[1].port = <<"2", "2">>
        /\ \A c \in CountAnnouncements :
              process_line(Self, c.toks) = [Self EXCEPT !.total_services = c.n]

\* C26 witness: services were counted in SERVICE_DETECTION, then the count
\* line set the expected total to 2 and a port was announced.
C26_Witness ==
    /\ current_phase = "SERVICE_DETECTION"
    /\ service_count = 1
    /\ total_services = 2
    /\ Len(ports_data) # 2
    /\ out[Len(out)].e = "analyzing"

-----------------------------------------------------------------------------
(* Properties of the records.                                               *)

\* The port numbers there are.
PortNumbers == 0..65535

\* C27: every PortRecord and every ServiceRecord has a Port that is an
\* integer from 0 to 65535, for every input.
C27_PortsInRange ==
    /\ \A i \in 1..Len(ports_data) : ports_data[i].Port \in PortNumbers
    /\ \A i \in 1..Len(services_data) : services_data[i].Port \in PortNumbers

\* Position in out of the last "Scanning" announcement before position k,
\* 0 if there is none.
AnnouncedBefore(k) ==
    LET hits == {i \in 1..(k - 1) : out[i].e = "scanning"}
    IN  IF hits = {} THEN 0 ELSE CHOOSE i \in hits : \A j \in hits : j <= i

\* C28: the "(no open ports)" notice is printed only for a current host
\* that has no PortRecord: when it is printed, no open port of the host
\* announced last was recorded before, for every input.
C28_NoticeOnlyForHostWithoutPorts ==
    \A k \in 1..Len(out) :
        out[k].e = "no_open_ports" =>
            /\ AnnouncedBefore(k) # 0
            /\ ~\E j \in 1..(k - 1) :
                  /\ out[j].e = "port_open"
                  /\ out[j].ip = out[AnnouncedBefore(k)].ip

\* C29: in every reachable state the distinct IPs with a PortRecord are at
\* most as many as the HostRecords, so that the ratio "hosts with open
\* ports / total hosts" is at most 1 and the network exposure at most 100%.
C29_ExposureAtMostAll ==
    /\ HostsWithPorts <= Len(hosts_data)
    /\ PortSummaryBody(Self).hosts_with_ports <= PortSummaryBody(Self).total_hosts
    /\ FinalSummaryBody(Self).exposure <= 1000

\* C30: the Final Summary is printed at most once in a run, and the
\* interruption notice is not printed in a run in which "Scan complete!" was
\* processed, for every input.
C30_FinalSummaryOnce ==
    /\ Count("final_summary") <= 1
    /\ (\E i \in 1..Len(markers_seen) : markers_seen[i] = 4) =>
          Count("interrupted") = 0

\* The interruption notice was printed although "Scan complete!" was
\* processed.
InterruptedAfterComplete ==
    /\ \E i \in 1..Len(markers_seen) : markers_seen[i] = 4
    /\ Count("interrupted") >= 1

====
